---- MODULE Spec2Model ----
(***************************************************************************)
(* A model of exportutils.py: the material presets (cutterMaterial), the   *)
(* tab builder's result lookup (tabbedObjectBuilder.execute) and the       *)
(* export object (exportutils) with its job steps, its cached G-code, the  *)
(* row layout and the screenshot capture.                                  *)
(*                                                                         *)
(* Numbers.  The host works in floating-point millimetres.  The model uses *)
(* fixed point: material thicknesses and speeds are in tenths (1.0 mm is   *)
(* 10, a feed of 12.5 is 125), bounding boxes and placements of the        *)
(* objects to cut are whole millimetres, and the Z coordinates of the      *)
(* faceplate's vertices are thousandths, so that round(z, 2) has digits to *)
(* drop.  Floating-point rounding of sums is not modelled.                 *)
(*                                                                         *)
(* The host application (document, shapes, Path workbench, post-processor, *)
(* Qt windows) is outside the repository.  What it returns is drawn from   *)
(* small sets: the post-processor returns some G-code string, a window     *)
(* lookup returns no window, one, several, or a missing handle.            *)
(***************************************************************************)
EXTENDS Integers, Sequences, FiniteSets, TLC

None == "None"
Raise == "raise"
Ok == "ok"

Abs(n) == IF n < 0 THEN -n ELSE n

SeqToSet(s) == {s[i] : i \in 1..Len(s)}

Min(S) == CHOOSE m \in S : \A n \in S : m <= n

Max(S) == CHOOSE m \in S : \A n \in S : m >= n

(***************************************************************************)
(* cutterMaterial                                                          *)
(***************************************************************************)

\* The largest thickness tried, in tenths of a millimetre.
MaxThickness == 60

\* A number passed as thickness: a Python int or a Python float, in tenths.
IntThickness == {[isInt |-> TRUE, val |-> 10 * n] : n \in 0..(MaxThickness \div 10)}

FloatThickness == {[isInt |-> FALSE, val |-> v] : v \in 0..MaxThickness}

Thicknesses == IntThickness \cup FloatThickness

Kerfs == {20, 25}

\* float(thickness) when isinstance(thickness, int); a float is kept as it is.
ToFloat(t) == IF t.isInt THEN [isInt |-> FALSE, val |-> t.val] ELSE t

\* 300 / 60 and 3000 / 60, as whole numbers.
BaseFeed == 300 \div 60

BaseRapid == 3000 \div 60

\* The constructor; speeds in tenths.
cutterMaterial(thickness, feedSpeed, rapidSpeed, kerf, cutIntensity) ==
    [thickness |-> thickness, feedSpeed |-> feedSpeed, rapidSpeed |-> rapidSpeed,
     kerf |-> kerf, cutIntensity |-> cutIntensity]

\* 1.7, in tenths.
WoodMultiplier == 17

bamboo(thickness, kerf, cutIntensity) ==
    cutterMaterial(ToFloat(thickness), BaseFeed * WoodMultiplier, BaseRapid * 10,
                   kerf, cutIntensity)

mdf(thickness, kerf, cutIntensity) ==
    cutterMaterial(ToFloat(thickness), BaseFeed * WoodMultiplier, BaseRapid * 10,
                   kerf, cutIntensity)

\* An exception instead of a preset.
Raised == [raised |-> TRUE]

IsRaised(r) == "raised" \in DOMAIN r

speedsDropsFive == (10 :> 25) @@ (20 :> 20) @@ (30 :> 13)

\* The dict of speed multipliers by thickness, both in tenths.
speeds == (10 :> 25) @@ (20 :> 20) @@ (30 :> 13) @@ (50 :> 10)

\* A dict lookup compares numbers by value, whatever their Python type.
acrylic(thickness, kerf, cutIntensity) ==
    LET thicknessFloat == ToFloat(thickness)
    IN  IF thicknessFloat.val \notin DOMAIN speeds
        THEN Raised
        ELSE cutterMaterial(thicknessFloat, BaseFeed * speeds[thicknessFloat.val],
                            BaseRapid * 10, kerf, cutIntensity)

(***************************************************************************)
(* State                                                                   *)
(***************************************************************************)

VARIABLES
    mat,            \* the last call of a cutterMaterial preset and its result
    tab,            \* the document and the call of tabbedObjectBuilder.execute
    objectsToCut,   \* exportutils.objectsToCut, a list of document objects
    gcode,          \* exportutils.gcode: None or the cached G-code string
    produced,       \* history: what the post-processor returned to the last job
                    \* step that ran to its end; None while none has
    placement,      \* Placement of each object to cut: Base and Rotation
    docName,        \* FreeCAD.ActiveDocument.Name
    doc,            \* labels of the CAM objects in the active document
    file,           \* the G-code file: whether it exists and what was written
    view,           \* the host's view: background overrides set, window detached
    shot,           \* saveScreenshotOfPath in progress: position and locals
    last            \* the last call on the export object and how it ended

vars ==
    <<mat, tab, objectsToCut, gcode, produced, placement, docName, doc, file, view, shot,
      last>>

(***************************************************************************)
(* Geometry of the objects to cut.  Each is a box; its bounding box is the *)
(* box turned by the placement's rotation and moved by its base, so the    *)
(* bounding box moves with the placement.                                  *)
(***************************************************************************)

ObjIds == {"A", "B"}

\* The boxes in their own coordinates: a corner and three lengths, in mm.
LocalBox(o) ==
    IF o = "A"
    THEN [x0 |-> 2, y0 |-> 1, z0 |-> 0, xl |-> 125, yl |-> 296, zl |-> 3]
    ELSE [x0 |-> 0, y0 |-> 0, z0 |-> 0, xl |-> 298, yl |-> 3, zl |-> 100]

\* The box after Rotation (a quarter turn about an axis through the origin).
Rotated(b, axis, angle) ==
    IF angle = 0 THEN b
    ELSE IF axis = "Z"
         THEN [x0 |-> -(b.y0 + b.yl), y0 |-> b.x0, z0 |-> b.z0,
               xl |-> b.yl, yl |-> b.xl, zl |-> b.zl]
    ELSE IF axis = "X"
         THEN [x0 |-> b.x0, y0 |-> -(b.z0 + b.zl), z0 |-> b.y0,
               xl |-> b.xl, yl |-> b.zl, zl |-> b.yl]
    ELSE [x0 |-> b.z0, y0 |-> b.y0, z0 |-> -(b.x0 + b.xl),
          xl |-> b.zl, yl |-> b.yl, zl |-> b.xl]

\* obj.Shape.BoundBox under placement p.
BoundBox(o, p) ==
    LET r == Rotated(LocalBox(o), p.axis, p.angle)
    IN  [XMin |-> r.x0 + p.x, YMin |-> r.y0 + p.y, ZMin |-> r.z0 + p.z,
         XMax |-> r.x0 + p.x + r.xl, YMax |-> r.y0 + p.y + r.yl,
         ZMax |-> r.z0 + p.z + r.zl,
         XLength |-> r.xl, YLength |-> r.yl, ZLength |-> r.zl]

Box(o) == BoundBox(o, placement[o])

\* The keys of a dict filled from a list: each element once, by first occurrence.
RECURSIVE DictKeys(_)
DictKeys(s) ==
    IF s = <<>> THEN <<>>
    ELSE LET front == DictKeys(SubSeq(s, 1, Len(s) - 1))
         IN  IF s[Len(s)] \in SeqToSet(front) THEN front ELSE Append(front, s[Len(s)])

\* sorted(): the numbers of a set in ascending order.
RECURSIVE Sorted(_)
Sorted(S) == IF S = {} THEN <<>> ELSE <<Min(S)>> \o Sorted(S \ {Min(S)})

(***************************************************************************)
(* exportutils: construction, generateGCode, saveGCode                     *)
(***************************************************************************)

\* What the post-processor may return: the G-code of a job, some string.
GCodes == {"G0 X1", "G1 X2"}

\* The material preset the export object is built with: acrylic(3), in tenths.
Material == acrylic([isInt |-> TRUE, val |-> 30], 20, 255)

\* Document names; a name is a list of its parts.
DocNames == {<<"exported_", "box">>, <<"box">>}

\* 'exported_' in doc.Name
HasExported(name) == \E i \in 1..Len(name) : name[i] = "exported_"

\* The file system: whether the G-code file exists and the strings written to it.
NoFile == [exists |-> FALSE, content |-> <<>>]

\* No job, no stock.
NoStock == [XLength |-> 0, YLength |-> 0]

\* The record of a call: which method, how it ended, what it returned, the
\* cached G-code before it, its arguments, the host calls it made in order,
\* the stock's lengths and the operations handed to the post-processor.
Call(op, outcome, ret, before, args, log, stock, posted) ==
    [op |-> op, outcome |-> outcome, ret |-> ret, before |-> before, args |-> args,
     log |-> log, stock |-> stock, posted |-> posted]

\* __init__ on a list of objects, in a document: gcode = None.
InitExportWith(objs, name, f) ==
    /\ objectsToCut = objs
    /\ gcode = None
    /\ produced = None
    /\ placement = [o \in ObjIds |-> [x |-> 0, y |-> 0, z |-> 0, axis |-> "Z", angle |-> 0]]
    /\ docName = name
    /\ doc = {}
    /\ file = f
    /\ view = [bg |-> FALSE, full |-> FALSE, detached |-> FALSE]
    /\ shot = [pc |-> "idle", retries |-> 0, attempts |-> 0, sub |-> None, mdi |-> None,
               found |-> None, pending |-> None]
    /\ last = Call("init", Ok, None, None, <<>>, <<>>, NoStock, <<>>)

\* __init__ where no G-code file has been written yet.
InitExportOf(objs, name) == InitExportWith(objs, name, NoFile)

InitExport ==
    \E objs \in {<<"A">>, <<"A", "B">>}, name \in DocNames : InitExportOf(objs, name)

generateGCodeForgetsCheck(g) == [outcome |-> Ok, ret |-> g]

\* generateGCode on a cache g: raises on None, else returns the cache.
generateGCodeResult(g) ==
    IF g = None THEN [outcome |-> Raise, ret |-> None] ELSE [outcome |-> Ok, ret |-> g]

generateGCode ==
    /\ shot.pc = "idle"
    /\ LET r == generateGCodeResult(gcode)
       IN  last' = Call("generateGCode", r.outcome, r.ret, gcode, <<>>, <<>>, NoStock, <<>>)
    /\ UNCHANGED <<mat, tab, objectsToCut, gcode, produced, placement, docName, doc,
                   file, view, shot>>

\* The longest file followed, in writes.
MaxFileLen == 1

\* open(filename, 'a' or 'w') comes first: 'w' creates or empties the file, 'a'
\* creates it when absent.  Then generateGCode() is evaluated and written.
saveGCodeFile(f, append, g) ==
    LET opened == [exists |-> TRUE, content |-> IF append THEN f.content ELSE <<>>]
        r == generateGCodeResult(g)
    IN  IF r.outcome = Raise THEN opened
        ELSE [opened EXCEPT !.content = Append(@, r.ret)]

saveGCode(append) ==
    /\ shot.pc = "idle"
    /\ append /\ gcode # None => Len(file.content) < MaxFileLen
    /\ file' = saveGCodeFile(file, append, gcode)
    /\ last' = Call("saveGCode", generateGCodeResult(gcode).outcome, None, gcode,
                    <<append>>, <<"open">>, NoStock, <<>>)
    /\ UNCHANGED <<mat, tab, objectsToCut, gcode, produced, placement, docName, doc,
                   view, shot>>

(***************************************************************************)
(* exportutils.execute: the laser job                                      *)
(***************************************************************************)

\* What PathJob.Create adds to the document.
JobLabels == {"Myjob", "Stock", "Operations", "Model", "Tools", "SetupSheet"}

\* What _createTool adds to the document.
ToolLabels == {"cutter", "toolController"}

\* The host calls of _createTool, in order.
createToolLog == <<"ToolBit.Create", "ToolController.Create">>

\* The host calls that create the fused object, the job, the tool or an operation.
CreationCalls ==
    {"addObject objectsFused", "PathJob.Create", "ToolBit.Create", "ToolController.Create",
     "PathProfile.Create", "PathPocket.Create", "PathEngrave.Create", "PathDrilling.Create"}

PostCall == "exportObjectsWith"

\* How much the job's stock extends beyond the model, both sides together:
\* a setting of the host.
StockExts == {0, 2}

\* The bed of the laser cutter, in mm.
BedX == 420

BedY == 297

MinX(objs) == Min({Box(o).XMin : o \in SeqToSet(objs)})

MinY(objs) == Min({Box(o).YMin : o \in SeqToSet(objs)})

NotAllPositiveIgnoresY(minX, minY) == minX < 0

\* The check of the printable area.
NotAllPositive(minX, minY) == minX < 0 \/ minY < 0

\* The stock of the recomputed job: the model's bounding box, extended.
StockOf(objs, ext) ==
    [XLength |-> Max({Box(o).XMax : o \in SeqToSet(objs)}) - MinX(objs) + ext,
     YLength |-> Max({Box(o).YMax : o \in SeqToSet(objs)}) - MinY(objs) + ext]

TooLargeIgnoresY(stock) == stock.XLength > BedX

\* The check against the bed.
TooLarge(stock) == stock.XLength > BedX \/ stock.YLength > BedY

\* The objects whose upward face is the top one, at Z = material.thickness.
ToCut(objs) == {o \in SeqToSet(objs) : Box(o).ZMax * 10 = Material.thickness.val}

\* The run of execute, given the stock extension of the host and the string
\* the post-processor returns: how it ends, the cache, the document, the
\* objects it made, the host calls in order, the stock and the operations posted.
executeRun(ext, out) ==
    LET recomputes == [i \in 1..Len(objectsToCut) |-> "recompute"]
        failed(log, made, stock) ==
            [outcome |-> Raise, gcode |-> gcode, made |-> made, log |-> log,
             stock |-> stock, posted |-> <<>>]
    IN  IF objectsToCut = <<>> \/ NotAllPositive(MinX(objectsToCut), MinY(objectsToCut))
        THEN failed(recomputes, {}, NoStock)
        ELSE
        LET fuseLog == IF Len(objectsToCut) = 1 THEN <<>> ELSE <<"addObject objectsFused">>
            fused == IF Len(objectsToCut) = 1 THEN {} ELSE {"objectsFused"}
            log == recomputes \o fuseLog \o <<"PathJob.Create">> \o createToolLog
                       \o <<"PathProfile.Create", "cncjob.recompute">>
            made == fused \cup JobLabels \cup ToolLabels \cup {"cutOutsideObjects"}
            stock == StockOf(objectsToCut, ext)
            cutObjs == [kind |-> "profile", name |-> "cutOutsideObjects",
                        base |-> ToCut(objectsToCut), side |-> "Outside",
                        FinalDepth |-> Material.thickness.val,
                        StartDepth |-> Material.thickness.val]
        IN  IF TooLarge(stock)
            THEN failed(log, made, stock)
            ELSE [outcome |-> Ok, gcode |-> out, made |-> made, log |-> Append(log, PostCall),
                  stock |-> stock, posted |-> <<cutObjs>>]

execute ==
    /\ shot.pc = "idle"
    /\ \E ext \in StockExts, out \in GCodes :
        LET r == executeRun(ext, out)
        IN  /\ gcode' = r.gcode
            /\ produced' = IF r.outcome = Ok THEN out ELSE produced
            /\ doc' = doc \cup r.made
            /\ last' = Call("execute", r.outcome, None, gcode, <<>>, r.log, r.stock, r.posted)
    /\ UNCHANGED <<mat, tab, objectsToCut, placement, docName, file, view, shot>>

(***************************************************************************)
(* exportutils.placeInRow and rotateAndPositionAllObjectsOnZ               *)
(***************************************************************************)

NewBaseXKeepsOffset(p, bb, pos) == p.x + pos

\* obj.Placement.Base.x - obj.Shape.BoundBox.XMin + pos
NewBaseX(p, bb, pos) == p.x - bb.XMin + pos

\* obj.Placement.Base.y - obj.Shape.BoundBox.YMin + startPosY
NewBaseY(p, bb, startPosY) == p.y - bb.YMin + startPosY

\* The loop of placeInRow from the i-th object on, over placements pl.
RECURSIVE placeLoop(_, _, _, _, _, _)
placeLoop(pl, objs, i, pos, startPosY, space) ==
    IF i > Len(objs) THEN pl
    ELSE LET o == objs[i]
             pl1 == [pl EXCEPT ![o].x = NewBaseX(pl[o], BoundBox(o, pl[o]), pos)]
             pl2 == [pl1 EXCEPT ![o].y = NewBaseY(pl1[o], BoundBox(o, pl1[o]), startPosY)]
         IN  placeLoop(pl2, objs, i + 1, BoundBox(o, pl2[o]).XMax + space, startPosY, space)

placeInRow(objectsToPlace, startPosX, startPosY, spaceBetweenObjects) ==
    /\ shot.pc = "idle"
    /\ placement' = placeLoop(placement, objectsToPlace, 1, startPosX, startPosY,
                              spaceBetweenObjects)
    /\ last' = Call("placeInRow", Ok, None, gcode,
                    <<objectsToPlace, startPosX, startPosY, spaceBetweenObjects>>,
                    <<>>, NoStock, <<>>)
    /\ UNCHANGED <<mat, tab, objectsToCut, gcode, produced, docName, doc, file, view, shot>>

\* The axis to turn about: the first dimension that equals the thickness.
RotationAxis(o) ==
    LET b == LocalBox(o)
    IN  IF b.xl * 10 = Material.thickness.val THEN "Y"
        ELSE IF b.yl * 10 = Material.thickness.val THEN "X"
        ELSE IF b.zl * 10 = Material.thickness.val THEN "Z"
        ELSE None

\* rotateAndPositionObjectOnZ on placement p: the angle is zeroed, the axis
\* chosen, the object turned a quarter, and its base moved along Z by the Z
\* of the upward face (the top of the box) and the box's Z length.
rotateAndPositionObjectOnZ(o, p) ==
    LET turned == [p EXCEPT !.axis = RotationAxis(o), !.angle = 90]
        bb == BoundBox(o, turned)
    IN  [turned EXCEPT !.z = -bb.ZMax + bb.ZLength]

RECURSIVE rotateLoop(_, _, _)
rotateLoop(pl, objs, i) ==
    IF i > Len(objs) THEN [outcome |-> Ok, pl |-> pl]
    ELSE IF RotationAxis(objs[i]) = None
         THEN [outcome |-> Raise, pl |-> [pl EXCEPT ![objs[i]].angle = 0]]
    ELSE rotateLoop([pl EXCEPT ![objs[i]] = rotateAndPositionObjectOnZ(objs[i], pl[objs[i]])],
                    objs, i + 1)

rotateAndPositionAllObjectsOnZ ==
    /\ shot.pc = "idle"
    /\ LET r == rotateLoop(placement, objectsToCut, 1)
       IN  /\ placement' = r.pl
           /\ last' = Call("rotateAndPositionAllObjectsOnZ", r.outcome, None, gcode,
                           <<>>, <<>>, NoStock, <<>>)
    /\ UNCHANGED <<mat, tab, objectsToCut, gcode, produced, docName, doc, file, view, shot>>

(***************************************************************************)
(* The faceplate handed to the mill and drill steps: a list of faces, each *)
(* with the absolute Z of its normal (thousandths) and its vertices; a     *)
(* vertex has a Z (thousandths of a mm) and the set of objects to cut that *)
(* obj.Shape.isInside reports it inside of.                                *)
(***************************************************************************)

Vertex(z, inside) == [z |-> z, inside |-> inside]

Face(nz, v1, v2) == [nz |-> nz, verts |-> <<v1, v2>>]

\* The faces tried: in A at two depths, in both objects with a normal just
\* inside the filter, in B above zero, in B with a normal just outside the
\* filter, and with one vertex outside every object.
FaceSet ==
    { Face(0, Vertex(-1204, {"A"}), Vertex(-1196, {"A"})),
      Face(0, Vertex(-1196, {"A"}), Vertex(-2500, {"A"})),
      Face(10, Vertex(-1215, {"A", "B"}), Vertex(-1196, {"A", "B"})),
      Face(0, Vertex(0, {"B"}), Vertex(1205, {"B"})),
      Face(11, Vertex(-2500, {"B"}), Vertex(-2500, {"B"})),
      Face(0, Vertex(-1204, {"A"}), Vertex(-1204, {})) }

\* The most faces of a faceplate tried.
MaxFaces == 3

FaceplatesUpTo(n) == UNION {[1..k -> FaceSet] : k \in 0..n}

\* round(z, 2) of a Z in thousandths, to the nearest hundredth, halves to even.
Round2(z) ==
    LET q == z \div 10
        r == z % 10
    IN  IF r < 5 THEN 10 * q
        ELSE IF r > 5 THEN 10 * (q + 1)
        ELSE IF q % 2 = 0 THEN 10 * q ELSE 10 * (q + 1)

\* The loop over the vertices; minDepth is <<>> for None, else <<depth>>.
RECURSIVE lowestLoop(_, _, _)
lowestLoop(verts, i, minDepth) ==
    IF i > Len(verts) THEN minDepth
    ELSE LET depth == Round2(verts[i].z)
         IN  lowestLoop(verts, i + 1,
                        IF minDepth = <<>> \/ depth < minDepth[1]
                        THEN <<depth>> ELSE minDepth)

\* findLowestZForFace: the least of the rounded Z of the face's vertices.
findLowestZForFace(face) == lowestLoop(face.verts, 1, <<>>)[1]

\* "%d" of a depth: the whole millimetres, cut toward zero.
FormatD(depth) == IF depth < 0 THEN -((-depth) \div 1000) ELSE depth \div 1000

\* "Face%d" % faceIdx and int(faceName[4:]).
FaceName(faceIdx) == <<"Face", faceIdx>>

FaceIndex(faceName) == faceName[2]

NormalFilterKeepsAll(face) == TRUE

\* The normal filter: a face is skipped when abs(normal.z) > 0.01.
PassesNormalFilter(face) == ~(face.nz > 10)

AllInside(face, o) == \A i \in 1..Len(face.verts) : o \in face.verts[i].inside

\* facesByObject[o]: the names of the filtered faces all inside o, in face order.
FacesOf(fp, o) ==
    LET idx == SelectSeq([i \in 1..Len(fp) |-> i],
                         LAMBDA i : PassesNormalFilter(fp[i]) /\ AllInside(fp[i], o))
    IN  [k \in 1..Len(idx) |-> FaceName(idx[k])]

\* Placement.Rotation = Rotation(Vector(1,0,0), 180): Z becomes -Z.
UpsideDown(fp) ==
    [i \in 1..Len(fp) |->
        [fp[i] EXCEPT !.verts = [k \in 1..Len(@) |-> [@[k] EXCEPT !.z = -@]]]]

\* deleteCADObjects removes the job's parts, the tool and its controller and
\* the profile and pocket operations.
DeletedLabels ==
    JobLabels \cup ToolLabels \cup {"Endmill", "cutOutsideObjects", "pocket", "profile"}

\* facesByDepth of the faces chosen for an object: depth -> face names.
FacesByDepth(fp, faceNames) ==
    LET depthOf(n) == findLowestZForFace(fp[FaceIndex(n)])
    IN  [d \in {depthOf(faceNames[k]) : k \in 1..Len(faceNames)} |->
            SelectSeq(faceNames, LAMBDA n : depthOf(n) = d)]

PocketOp(o, depth, faces) ==
    [kind |-> "pocket", name |-> <<"pocket", o, FormatD(depth)>>, base |-> faces,
     FinalDepth |-> depth, StepDown |-> 4000]

ProfileOp(o, depth, faces) ==
    [kind |-> "profile", name |-> <<"profile", o, FormatD(depth)>>, base |-> faces,
     FinalDepth |-> depth, StepDown |-> 3500]

DepthOrderAsFound(byDepth, faceNames) ==
    DictKeys([k \in 1..Len(faceNames) |->
                 CHOOSE d \in DOMAIN byDepth : faceNames[k] \in SeqToSet(byDepth[d])])

\* The depths in the order the operations are made for them: sorted(keys).
DepthOrder(byDepth, faceNames) == Sorted(DOMAIN byDepth)

\* The pocket and the profile of each depth of one object.
RECURSIVE depthOps(_, _, _, _)
depthOps(o, byDepth, depths, i) ==
    IF i > Len(depths) THEN <<>>
    ELSE <<PocketOp(o, depths[i], byDepth[depths[i]]),
           ProfileOp(o, depths[i], byDepth[depths[i]])>>
         \o depthOps(o, byDepth, depths, i + 1)

\* pathObjects: the operations of every object, in the order of the dict's keys.
RECURSIVE pathObjectsFrom(_, _, _, _)
pathObjectsFrom(fp, byObject, keys, i) ==
    IF i > Len(keys) THEN <<>>
    ELSE LET byDepth == FacesByDepth(fp, byObject[keys[i]])
         IN  depthOps(keys[i], byDepth, DepthOrder(byDepth, byObject[keys[i]]), 1)
             \o pathObjectsFrom(fp, byObject, keys, i + 1)

\* The run of executeForMill on a faceplate, with the string the
\* post-processor returns.
executeForMillRun(faceplateCut, upsideDown, out) ==
    LET failed(log, deleted) ==
            [outcome |-> Raise, gcode |-> gcode, deleted |-> deleted, made |-> {},
             log |-> log, posted |-> <<>>]
    IN  IF ~HasExported(docName) THEN failed(<<>>, {})
        ELSE
        LET keys == DictKeys(objectsToCut)
            byObject == [o \in SeqToSet(keys) |-> FacesOf(faceplateCut, o)]
        IN  IF \E o \in SeqToSet(keys) : Len(byObject[o]) = 0
            THEN failed(<<"deleteCADObjects">>, DeletedLabels)
            ELSE
            LET fp == IF upsideDown THEN UpsideDown(faceplateCut) ELSE faceplateCut
                posted == pathObjectsFrom(fp, byObject, keys, 1)
                opLog == [k \in 1..Len(posted) |->
                            IF posted[k].kind = "pocket" THEN "PathPocket.Create"
                            ELSE "PathProfile.Create"]
            IN  [outcome |-> Ok, gcode |-> out, deleted |-> DeletedLabels,
                 made |-> JobLabels \cup ToolLabels
                             \cup {posted[k].kind : k \in 1..Len(posted)},
                 log |-> <<"deleteCADObjects", "faceplateCut.recompute", "PathJob.Create">>
                             \o createToolLog \o opLog
                             \o <<"cncjob.recompute", PostCall>>,
                 posted |-> posted]

executeForMill(faceplateCut, upsideDown) ==
    /\ shot.pc = "idle"
    /\ \E out \in GCodes :
        LET r == executeForMillRun(faceplateCut, upsideDown, out)
        IN  /\ gcode' = r.gcode
            /\ produced' = IF r.outcome = Ok THEN out ELSE produced
            /\ doc' = (doc \ r.deleted) \cup r.made
            /\ last' = Call("executeForMill", r.outcome, None, gcode,
                            <<faceplateCut, upsideDown>>, r.log, NoStock, r.posted)
    /\ UNCHANGED <<mat, tab, objectsToCut, placement, docName, file, view, shot>>

(***************************************************************************)
(* executeForMillEngravings and executeForDrilling                         *)
(***************************************************************************)

\* The lists of objects to engrave that are tried.
StringLists == {<<"S1">>, <<"S1", "S2">>}

executeForMillEngravingsRunClearsCache(strings, out) ==
    IF ~HasExported(docName)
    THEN [outcome |-> Raise, gcode |-> None, deleted |-> {}, made |-> {}, log |-> <<>>,
          posted |-> <<>>]
    ELSE [outcome |-> Ok, gcode |-> out, deleted |-> DeletedLabels,
          made |-> JobLabels \cup ToolLabels \cup {"engravings"},
          log |-> <<"deleteCADObjects", "PathJob.Create">> \o createToolLog
                      \o <<"PathEngrave.Create", "cncjob.recompute", PostCall>>,
          posted |-> <<>>]

\* The run of executeForMillEngravings on a list of objects to engrave.
executeForMillEngravingsRun(strings, out) ==
    IF ~HasExported(docName)
    THEN [outcome |-> Raise, gcode |-> gcode, deleted |-> {}, made |-> {}, log |-> <<>>,
          posted |-> <<>>]
    ELSE LET depth == 1
             profileObj == [kind |-> "engrave", name |-> "engravings", base |-> strings,
                            FinalDepth |-> Material.thickness.val - depth,
                            StepDown |-> depth]
         IN  [outcome |-> Ok, gcode |-> out, deleted |-> DeletedLabels,
              made |-> JobLabels \cup ToolLabels \cup {"engravings"},
              log |-> <<"deleteCADObjects", "PathJob.Create">> \o createToolLog
                          \o <<"PathEngrave.Create", "cncjob.recompute", PostCall>>,
              posted |-> <<profileObj>>]

executeForMillEngravings ==
    /\ shot.pc = "idle"
    /\ \E strings \in StringLists, out \in GCodes :
        LET r == executeForMillEngravingsRun(strings, out)
        IN  /\ gcode' = r.gcode
            /\ produced' = IF r.outcome = Ok THEN out ELSE produced
            /\ doc' = (doc \ r.deleted) \cup r.made
            /\ last' = Call("executeForMillEngravings", r.outcome, None, gcode,
                            <<strings>>, r.log, NoStock, r.posted)
    /\ UNCHANGED <<mat, tab, objectsToCut, placement, docName, file, view, shot>>

\* A face touches the Z = 0 plane when its lowest or highest Z is within 0.1.
TouchesZero(face) ==
    LET zs == {face.verts[i].z : i \in 1..Len(face.verts)}
    IN  Abs(Min(zs)) < 100 \/ Abs(Max(zs)) < 100

executeForDrillingRun(faceplateCut, out) ==
    LET idx == SelectSeq([i \in 1..Len(faceplateCut) |-> i],
                         LAMBDA i : PassesNormalFilter(faceplateCut[i])
                                        /\ TouchesZero(faceplateCut[i]))
        drillObj == [kind |-> "drill", name |-> "drills",
                     base |-> [k \in 1..Len(idx) |-> FaceName(idx[k])]]
    IN  [outcome |-> Ok, gcode |-> out, deleted |-> DeletedLabels,
         made |-> JobLabels \cup ToolLabels \cup {"drills"},
         log |-> <<"deleteCADObjects", "PathJob.Create">> \o createToolLog
                     \o <<"PathDrilling.Create", "cncjob.recompute", PostCall>>,
         posted |-> <<drillObj>>]

executeForDrilling(faceplateCut) ==
    /\ shot.pc = "idle"
    /\ \E out \in GCodes :
        LET r == executeForDrillingRun(faceplateCut, out)
        IN  /\ gcode' = r.gcode
            /\ produced' = IF r.outcome = Ok THEN out ELSE produced
            /\ doc' = (doc \ r.deleted) \cup r.made
            /\ last' = Call("executeForDrilling", r.outcome, None, gcode,
                            <<faceplateCut>>, r.log, NoStock, r.posted)
    /\ UNCHANGED <<mat, tab, objectsToCut, placement, docName, file, view, shot>>

(***************************************************************************)
(* saveScreenshotOfPath.  The call is followed step by step: the start up  *)
(* to the retry loop, each attempt of the loop with what the window lookup *)
(* gave, the snapshot, and the finally block with the return.              *)
(***************************************************************************)

\* retries = 10
Retries == 10

\* What one lookup of the windows gives: no main window or no MDI area (an
\* AttributeError; the second leaves mdi None), no sub-window titled
\* "exported...", exactly one, or several.
Lookups == {"noWindow", "noMdi", "none", "one", "several"}

Idle == [pc |-> "idle", retries |-> 0, attempts |-> 0, sub |-> None, mdi |-> None,
         found |-> None, pending |-> None]

saveScreenshotOfPathStart ==
    /\ shot.pc = "idle"
    /\ \E append \in BOOLEAN :
        LET ends(outcome) == Call("saveScreenshotOfPath", outcome, None, gcode, <<append>>,
                                  <<>>, NoStock, <<>>)
        IN  IF append
            THEN /\ last' = ends(Ok)
                 /\ UNCHANGED <<view, shot>>
            ELSE IF gcode = None
            THEN /\ last' = ends(Raise)
                 /\ UNCHANGED <<view, shot>>
            ELSE IF "Operations" \notin doc
            THEN /\ last' = ends(Raise)
                 /\ UNCHANGED <<view, shot>>
            ELSE /\ last' = ends("running")
                 /\ view' = [view EXCEPT !.bg = TRUE]
                 /\ shot' = [Idle EXCEPT !.pc = "loop", !.retries = Retries]
    /\ UNCHANGED <<mat, tab, objectsToCut, gcode, produced, placement, docName, doc, file>>

missKeepsRetries(retries) == [raises |-> FALSE, retries |-> retries]

\* if retries == 0: raise; retries = retries - 1
miss(retries) ==
    IF retries = 0 THEN [raises |-> TRUE, retries |-> retries]
    ELSE [raises |-> FALSE, retries |-> retries - 1]

\* One pass of the while loop.
saveScreenshotOfPathAttempt ==
    /\ shot.pc = "loop"
    /\ \E found \in Lookups :
        LET mdi == IF found = "noWindow" THEN shot.mdi
                   ELSE IF found = "noMdi" THEN None ELSE "mdi"
            tried == [shot EXCEPT !.attempts = @ + 1, !.mdi = mdi]
            left == [tried EXCEPT !.found = found]
        IN  IF found = "one"
            THEN /\ shot' = [left EXCEPT !.sub = "sub", !.pc = "view"]
                 /\ view' = [view EXCEPT !.full = TRUE, !.detached = TRUE]
            ELSE IF found = "several"
            THEN /\ shot' = [left EXCEPT !.pc = "finally", !.pending = Raise]
                 /\ UNCHANGED view
            ELSE LET m == miss(shot.retries)
                 IN  /\ shot' = IF m.raises
                                THEN [left EXCEPT !.pc = "finally", !.pending = Raise]
                                ELSE [tried EXCEPT !.retries = m.retries]
                     /\ UNCHANGED view
    /\ UNCHANGED <<mat, tab, objectsToCut, gcode, produced, placement, docName, doc,
                   file, last>>

\* The view is set and v.saveImage(filename) writes the image, or fails.
saveScreenshotOfPathSnapshot ==
    /\ shot.pc = "view"
    /\ \E saved \in BOOLEAN :
        shot' = [shot EXCEPT !.pc = "finally", !.pending = IF saved THEN Ok ELSE Raise]
    /\ UNCHANGED <<mat, tab, objectsToCut, gcode, produced, placement, docName, doc,
                   file, view, last>>

restoreViewForgetsMdi(v, sub, mdi) ==
    [bg |-> FALSE,
     full |-> IF sub # None THEN FALSE ELSE v.full,
     detached |-> v.detached]

\* The finally block on the view: both background overrides are removed; a
\* sub-window that was chosen is added to the MDI area again, when there is
\* one, and shown normal.
restoreView(v, sub, mdi) ==
    [bg |-> FALSE,
     full |-> IF sub # None THEN FALSE ELSE v.full,
     detached |-> IF sub # None /\ mdi # None THEN FALSE ELSE v.detached]

\* The host calls of the finally block, in order.
restoreLog(sub, mdi) ==
    <<"RemUnsigned BackgroundColor2", "RemUnsigned BackgroundColor3">>
    \o (IF sub = None THEN <<>>
        ELSE <<"setWindowFlags">>
             \o (IF mdi = None THEN <<>> ELSE <<"addSubWindow">>)
             \o <<"update", "showNormal">>)

\* The finally block, and the end of the call.
saveScreenshotOfPathFinally ==
    /\ shot.pc = "finally"
    /\ view' = restoreView(view, shot.sub, shot.mdi)
    /\ shot' = Idle
    /\ last' = [last EXCEPT !.outcome = shot.pending,
                            !.log = restoreLog(shot.sub, shot.mdi)]
    /\ UNCHANGED <<mat, tab, objectsToCut, gcode, produced, placement, docName, doc, file>>

(***************************************************************************)
(* tabbedObjectBuilder.execute.  A label is a list of characters.  The     *)
(* document is the list doc.Objects after joinGroup.execute has run: what  *)
(* the joinery library left there is not the builder's to decide.          *)
(***************************************************************************)

\* The object names a builder is made with.
NamePool == {<<"a">>, <<"b", ".", "c">>, <<"b", "-", "c">>}

\* The most names of a builder tried.
MaxNames == 2

NameLists == UNION {[1..k -> NamePool] : k \in 1..MaxNames}

\* s.replace(from, to)
Replace(s, from, to) == [i \in 1..Len(s) |-> IF s[i] = from THEN to ELSE s[i]]

TabObjNameKeepsDash(objName) == Replace(objName, ".", "_") \o <<"_", "t", "a", "b">>

\* objName.replace(".", "_").replace("-", "_") + "_tab"
TabObjName(objName) ==
    Replace(Replace(objName, ".", "_"), "-", "_") \o <<"_", "t", "a", "b">>

\* A document object: its label, the number of children of its shape when the
\* shape is a compound (0 when it is not), its visibility, and for a component
\* made by explodeCompound the index of the compound it was taken from (else 0).
DocObject(label, kids, vis, base) ==
    [Label |-> label, kids |-> kids, Visibility |-> vis, Base |-> base]

\* The documents tried: the named objects, then maybe an object labelled
\* "b.c_tab", then maybe the tabbed results, plain or compound.
TabDocs ==
    { [i \in 1..3 |-> DocObject(CHOOSE n \in NamePool : Len(n) = 1 \/ n[2] = <<"", ".", "-">>[i],
                                0, v1, 0)]
        \o decoy \o resA \o resBC :
      v1 \in BOOLEAN,
      decoy \in {<<>>, <<DocObject(<<"b", ".", "c", "_", "t", "a", "b">>, 0, TRUE, 0)>>},
      resA \in {<<>>} \cup {<<DocObject(TabObjName(<<"a">>), k, v, 0)>> :
                            k \in {0, 2}, v \in BOOLEAN},
      resBC \in {<<>>} \cup {<<DocObject(TabObjName(<<"b", ".", "c">>), k, v, 0)>> :
                             k \in {0, 2}, v \in BOOLEAN} }

\* doc.getObjectsByLabel(label), as indices into doc.Objects.
getObjectsByLabel(objs, label) ==
    SelectSeq([i \in 1..Len(objs) |-> i], LAMBDA i : objs[i].Label = label)

\* explodeCompound: one new object per child, each with Base the compound.
Components(objs, i) ==
    [k \in 1..objs[i].kids |-> DocObject(objs[i].Label \o <<".", k>>, 0, TRUE, i)]

\* The loop over objectNames from the i-th name on.
RECURSIVE findTabbed(_, _, _, _)
findTabbed(objs, names, i, tabbedObjects) ==
    IF i > Len(names) THEN [outcome |-> Ok, objs |-> objs, tabbedObjects |-> tabbedObjects]
    ELSE LET found == getObjectsByLabel(objs, TabObjName(names[i]))
         IN  IF Len(found) = 0
             THEN [outcome |-> Raise, objs |-> objs, tabbedObjects |-> tabbedObjects]
             ELSE LET obj == found[1]
                  IN  IF objs[obj].kids > 0
                      THEN LET components == Components(objs, obj)
                               hidden == [objs EXCEPT ![obj].Visibility = FALSE]
                           IN  findTabbed(hidden \o components, names, i + 1,
                                    tabbedObjects \o
                                    [k \in 1..Len(components) |-> Len(objs) + k])
                      ELSE findTabbed(objs, names, i + 1, Append(tabbedObjects, obj))

\* The last loop: the tabbed objects are shown, every other object hidden.
ShowOnly(objs, tabbedObjects) ==
    [i \in 1..Len(objs) |-> [objs[i] EXCEPT !.Visibility = i \in SeqToSet(tabbedObjects)]]

tabbedExecuteRun(objs, names) ==
    LET r == findTabbed(objs, names, 1, <<>>)
    IN  IF r.outcome = Raise THEN [outcome |-> Raise, objs |-> r.objs, ret |-> <<>>]
        ELSE [outcome |-> Ok, objs |-> ShowOnly(r.objs, r.tabbedObjects),
              ret |-> r.tabbedObjects]

\* A builder that has not run, on a document.
TabNew(names, objs) ==
    [objectNames |-> names, objs |-> objs, before |-> objs, outcome |-> "new", ret |-> <<>>]

tabbedObjectBuilderExecute ==
    /\ tab.outcome = "new"
    /\ LET r == tabbedExecuteRun(tab.objs, tab.objectNames)
       IN  tab' = [tab EXCEPT !.objs = r.objs, !.outcome = r.outcome, !.ret = r.ret]
    /\ UNCHANGED <<mat, objectsToCut, gcode, produced, placement, docName, doc, file,
                   view, shot, last>>

(***************************************************************************)
(* Calls of the material presets                                           *)
(***************************************************************************)

MatCall(preset, thickness, kerf, result) ==
    [preset |-> preset, thickness |-> thickness, kerf |-> kerf, result |-> result]

callAcrylic ==
    /\ \E t \in Thicknesses, k \in Kerfs : mat' = MatCall("acrylic", t, k, acrylic(t, k, 255))
    /\ UNCHANGED <<tab, objectsToCut, gcode, produced, placement, docName, doc, file,
                   view, shot, last>>

callBamboo ==
    /\ \E t \in Thicknesses, k \in Kerfs : mat' = MatCall("bamboo", t, k, bamboo(t, k, 255))
    /\ UNCHANGED <<tab, objectsToCut, gcode, produced, placement, docName, doc, file,
                   view, shot, last>>

callMdf ==
    /\ \E t \in Thicknesses, k \in Kerfs : mat' = MatCall("mdf", t, k, mdf(t, k, 255))
    /\ UNCHANGED <<tab, objectsToCut, gcode, produced, placement, docName, doc, file,
                   view, shot, last>>

(***************************************************************************)
(* Specifications                                                          *)
(***************************************************************************)

NoMat == MatCall(None, [isInt |-> FALSE, val |-> 0], 0, Raised)

NoTab == TabNew(<<>>, <<>>)

\* The row layout in the life of an export object: the defaults.
placeInRowStep == placeInRow(objectsToCut, 0, 0, 1)

\* The faceplates tried in the life of an export object: faces in both
\* objects at two depths, and a face in A only.
Faceplates ==
    { <<Face(0, Vertex(-1204, {"A"}), Vertex(-1196, {"A"})),
        Face(0, Vertex(0, {"B"}), Vertex(-1196, {"B"})),
        Face(0, Vertex(-1196, {"A"}), Vertex(-2500, {"A"}))>>,
      <<Face(0, Vertex(-1204, {"A"}), Vertex(-1196, {"A"})),
        Face(1000, Vertex(-2500, {"A", "B"}), Vertex(-2500, {"A", "B"}))>> }

executeForMillStep ==
    \E fp \in Faceplates, upsideDown \in BOOLEAN : executeForMill(fp, upsideDown)

executeForDrillingStep == \E fp \in Faceplates : executeForDrilling(fp)

\* A new export object, on one object or two, in a document of either name.
Init == mat = NoMat /\ tab = NoTab /\ InitExport

\* The life of one export object on two objects: the job steps, the reads of
\* the cache, the file written anew, the layout and the screenshot, in any
\* order.
InitLife ==
    /\ mat = NoMat
    /\ tab = NoTab
    /\ \E name \in DocNames : InitExportOf(<<"A", "B">>, name)

saveGCodeAnew == saveGCode(FALSE)

Next ==
    \/ execute
    \/ executeForMillStep
    \/ executeForMillEngravings
    \/ executeForDrillingStep
    \/ generateGCode
    \/ saveGCodeAnew
    \/ placeInRowStep
    \/ rotateAndPositionAllObjectsOnZ
    \/ saveScreenshotOfPathStart
    \/ saveScreenshotOfPathAttempt
    \/ saveScreenshotOfPathSnapshot
    \/ saveScreenshotOfPathFinally

Spec == InitLife /\ [][Next]_vars

\* cutterMaterial presets, called with any thickness.
NextMaterial == callAcrylic \/ callBamboo \/ callMdf

InitMaterial == mat = NoMat /\ tab = NoTab /\ InitExportOf(<<"A">>, <<"box">>)

SpecMaterial == InitMaterial /\ [][NextMaterial]_vars

\* A tab builder on any of the documents, run once.
InitTab ==
    /\ mat = NoMat
    /\ tab \in {TabNew(names, objs) : names \in NameLists, objs \in TabDocs}
    /\ InitExportOf(<<"A">>, <<"box">>)

NextTab == tabbedObjectBuilderExecute

SpecTab == InitTab /\ [][NextTab]_vars

\* The laser job on objects laid out anywhere, turned or not.
placeInRowAnywhere ==
    \E startPosX \in {-5, 0}, startPosY \in {-2, 0} :
        placeInRow(objectsToCut, startPosX, startPosY, 1)

NextLaser ==
    \/ execute
    \/ placeInRowAnywhere
    \/ rotateAndPositionAllObjectsOnZ
    \/ generateGCode

SpecLaser == Init /\ [][NextLaser]_vars

\* The most objects handed to placeInRow.
MaxRow == 2

RowLists == UNION {[1..k -> ObjIds] : k \in 0..MaxRow}

\* Any row of objects, any start and gap, once the objects are constructed or
\* turned.
placeInRowAny ==
    /\ last.op \in {"init", "rotateAndPositionAllObjectsOnZ"}
    /\ \E objs \in RowLists, startPosX \in {-5, 7}, startPosY \in {-2, 0},
       space \in {-200, 1} :
           placeInRow(objs, startPosX, startPosY, space)

NextRow == placeInRowAny \/ rotateAndPositionAllObjectsOnZ

InitRow == mat = NoMat /\ tab = NoTab /\ InitExportOf(<<"A", "B">>, <<"box">>)

SpecRow == InitRow /\ [][NextRow]_vars

\* One mill step on any faceplate, on a new export object or after its first
\* laser step.
executeForMillAny ==
    /\ last.op \in {"init", "execute"}
    /\ last.before = None
    /\ \E fp \in FaceplatesUpTo(MaxFaces), upsideDown \in BOOLEAN :
        executeForMill(fp, upsideDown)

NextMill == execute \/ executeForMillAny

\* A new export object, on one object or two, in an exported document.
InitMill ==
    /\ mat = NoMat
    /\ tab = NoTab
    /\ \E objs \in {<<"A">>, <<"A", "B">>} : InitExportOf(objs, <<"exported_", "box">>)

SpecMill == InitMill /\ [][NextMill]_vars

\* The G-code file written anew or appended to, between laser steps.
saveGCodeAny == \E append \in BOOLEAN : saveGCode(append)

NextFile == execute \/ saveGCodeAny \/ generateGCode

\* The target file as an earlier run of the script may have left it: absent,
\* or holding the G-code of that run.
FilesBefore == {NoFile, [exists |-> TRUE, content |-> <<"G1 X2">>]}

InitFile ==
    /\ mat = NoMat
    /\ tab = NoTab
    /\ \E objs \in {<<"A">>, <<"A", "B">>}, name \in DocNames, f \in FilesBefore :
        InitExportWith(objs, name, f)

SpecFile == InitFile /\ [][NextFile]_vars

(***************************************************************************)
(* Properties                                                              *)
(***************************************************************************)

\* C3: cutterMaterial.acrylic raises exactly when the thickness, an integer
\* taken as the float of the same value, is none of 1, 2, 3, 5 mm; otherwise
\* the preset has that thickness as a float, feed speed (300/60) times 2.5,
\* 2.0, 1.3, 1.0 for 1, 2, 3, 5 mm and rapid speed 3000/60.  bamboo and mdf
\* never raise and give the same feed and rapid speed for every thickness.
C3_AcrylicRaisesOnUndefinedThickness ==
    LET v == mat.thickness.val
        r == mat.result
    IN  /\ mat.preset = "acrylic" =>
            /\ IsRaised(r) <=> v \notin {10, 20, 30, 50}
            /\ ~IsRaised(r) =>
                /\ r.thickness = [isInt |-> FALSE, val |-> v]
                /\ r.feedSpeed = CASE v = 10 -> 125 [] v = 20 -> 100
                                   [] v = 30 -> 65 [] v = 50 -> 50
                /\ r.rapidSpeed = 500
        /\ mat.preset \in {"bamboo", "mdf"} =>
            /\ ~IsRaised(r)
            /\ r.thickness = [isInt |-> FALSE, val |-> v]
            /\ r.feedSpeed = 85
            /\ r.rapidSpeed = 500

\* acrylic(5), an integer, gave the 5 mm preset.
C3_Witness ==
    /\ mat.preset = "acrylic"
    /\ mat.thickness = [isInt |-> TRUE, val |-> 50]
    /\ ~IsRaised(mat.result)
    /\ mat.result.feedSpeed = 50

ExecuteSteps ==
    {"execute", "executeForMill", "executeForMillEngravings", "executeForDrilling"}

\* C1: while no job step has run to its end, generateGCode raises and
\* saveScreenshotOfPath with append false raises; once one has, generateGCode
\* returns, without raising, the string the last such step got from the
\* post-processor.
C1_ExecuteBeforeGenerateAndSave ==
    /\ last.op = "generateGCode" =>
        IF produced = None
        THEN last.outcome = Raise
        ELSE last.outcome = Ok /\ last.ret = produced
    /\ last.op = "saveScreenshotOfPath" /\ last.args = <<FALSE>> /\ produced = None =>
        last.outcome = Raise

\* generateGCode returned the string of a second job step, not of the first.
C1_Witness ==
    /\ last.op = "generateGCode"
    /\ last.outcome = Ok
    /\ last.ret = produced
    /\ \E k \in 1..Len(file.content) : file.content[k] # produced

\* C2: the cache is None at construction; a step changes it only if it is a
\* job step that ends without raising and whose last host call is the
\* post-processor; once it is not None it never is None again.
C2_CacheSetOnlyByCompletedJobSteps ==
    /\ gcode = None
    /\ [][ /\ gcode' # gcode =>
                /\ last'.op \in ExecuteSteps
                /\ last'.outcome = Ok
                /\ last'.log # <<>>
                /\ last'.log[Len(last'.log)] = PostCall
           /\ gcode # None => gcode' # None ]_vars

\* A job step raised and the cache kept the string of an earlier step.
C2_Witness ==
    /\ last.op \in ExecuteSteps
    /\ last.outcome = Raise
    /\ gcode # None
    /\ gcode = last.before

\* C4: when the least XMin or the least YMin of the objects to cut is below 0,
\* execute raises without having created the fused object, the job, the tool
\* or an operation, without calling the post-processor, and the cache is what
\* it was before the call.
C4_ExecuteRaisesInNegativeSpace ==
    last.op = "execute"
        /\ (\E i \in 1..Len(objectsToCut) :
                Box(objectsToCut[i]).XMin < 0 \/ Box(objectsToCut[i]).YMin < 0) =>
        /\ last.outcome = Raise
        /\ SeqToSet(last.log) \cap (CreationCalls \cup {PostCall}) = {}
        /\ gcode = last.before

\* execute raised for an object below Y = 0 only, with a string cached.
C4_Witness ==
    /\ last.op = "execute"
    /\ last.outcome = Raise
    /\ \E i \in 1..Len(objectsToCut) : Box(objectsToCut[i]).YMin < 0
    /\ \A i \in 1..Len(objectsToCut) : Box(objectsToCut[i]).XMin >= 0
    /\ last.before # None

Count(seq, x) == Cardinality({k \in 1..Len(seq) : seq[k] = x})

\* C5: when the stock of the recomputed job is longer than 420 in X or than
\* 297 in Y, execute raises, the post-processor is not called and the cache is
\* what it was; when the job was recomputed and both lengths are within the
\* limits, the post-processor is called exactly once and what it returns
\* becomes the cache.
C5_ExecuteRaisesOnOversizeStock ==
    last.op = "execute" /\ Count(last.log, "cncjob.recompute") = 1 =>
        IF last.stock.XLength > 420 \/ last.stock.YLength > 297
        THEN /\ last.outcome = Raise
             /\ Count(last.log, PostCall) = 0
             /\ gcode = last.before
        ELSE /\ last.outcome = Ok
             /\ Count(last.log, PostCall) = 1
             /\ gcode = produced

\* execute raised for a stock too long in Y only, with a string cached.
C5_Witness ==
    /\ last.op = "execute"
    /\ last.outcome = Raise
    /\ last.stock.XLength > 0
    /\ last.stock.XLength <= 420
    /\ last.stock.YLength > 297
    /\ last.before # None

\* The faces of a faceplate that pass the normal filter and have every vertex
\* inside object o.
FacesInside(fp, o) ==
    {i \in 1..Len(fp) : fp[i].nz <= 10 /\ \A k \in 1..Len(fp[i].verts) : o \in fp[i].verts[k].inside}

\* C6: when some object to cut has no face of the faceplate that passes the
\* normal filter with every vertex inside it, executeForMill raises without
\* having created the job, the tool or an operation, without calling the
\* post-processor, and the cache is what it was; when every object has such a
\* face, the step raises only for the document's name.
C6_MillRaisesOnMissingFaces ==
    last.op = "executeForMill" =>
        IF \E i \in 1..Len(objectsToCut) : FacesInside(last.args[1], objectsToCut[i]) = {}
        THEN /\ last.outcome = Raise
             /\ SeqToSet(last.log) \cap (CreationCalls \cup {PostCall}) = {}
             /\ gcode = last.before
        ELSE last.outcome = Raise => ~HasExported(docName)

\* executeForMill raised for an object none of whose faces passed, in a
\* document named as an export, with a string cached.
C6_Witness ==
    /\ last.op = "executeForMill"
    /\ last.outcome = Raise
    /\ HasExported(docName)
    /\ last.before # None
    /\ \E i \in 1..Len(objectsToCut) :
        /\ FacesInside(last.args[1], objectsToCut[i]) = {}
        /\ \E f \in 1..Len(last.args[1]) :
            \A k \in 1..2 : objectsToCut[i] \in last.args[1][f].verts[k].inside

\* C9: the loop that looks for the sub-window makes at most 11 attempts,
\* whatever the lookups give; missing handles and missing sub-windows draw on
\* one counter that starts at 10; the loop ends with one sub-window chosen and
\* shown full screen or with an exception; several matching sub-windows raise
\* at once and use no retry.
C9_RetryLoopBounded ==
    /\ shot.pc = "loop" => shot.attempts <= 10 /\ shot.retries = 10 - shot.attempts
    /\ shot.pc \in {"view", "finally"} =>
        /\ shot.attempts >= 1
        /\ shot.attempts <= 11
        /\ shot.found = "one" => shot.sub = "sub" /\ shot.mdi = "mdi"
        /\ shot.found \in {"noWindow", "noMdi", "none"} =>
            shot.attempts = 11 /\ shot.retries = 0 /\ shot.pending = Raise
        /\ shot.found = "several" =>
            shot.pending = Raise /\ shot.retries = 10 - (shot.attempts - 1)
        /\ shot.found \in Lookups
    /\ shot.pc = "view" => shot.found = "one" /\ view.full
    /\ shot.pc = "finally" /\ shot.found # "one" => shot.sub = None /\ ~view.full

\* The loop gave up at the eleventh attempt, on a missing handle, after a
\* lookup that had found the MDI area but no sub-window.
C9_Witness ==
    /\ shot.pc = "finally"
    /\ shot.attempts = 11
    /\ shot.found = "noWindow"
    /\ shot.mdi = "mdi"
    /\ shot.pending = Raise

\* C10: executeForMill hands the post-processor, for every object to cut and
\* every depth of its selected faces, one pocket followed at once by one
\* profile over the same faces with FinalDepth that depth; each selected face
\* of an object is in exactly one of the object's groups, the one of the
\* lowest Z of its vertices rounded to two decimals; an object's groups come
\* in ascending depth.
C10_MillGroupsFacesByDepth ==
    last.op = "executeForMill" /\ last.outcome = Ok =>
        LET fp == last.args[1]
            z(i, k) == IF last.args[2] THEN -fp[i].verts[k].z ELSE fp[i].verts[k].z
            depth(i) == Round2(Min({z(i, k) : k \in 1..Len(fp[i].verts)}))
            P == last.posted
            objs == SeqToSet(objectsToCut)
            pockets(o) == {k \in 1..Len(P) : P[k].kind = "pocket" /\ P[k].name[2] = o}
        IN  /\ Len(P) % 2 = 0
            /\ \A k \in 1..Len(P) :
                IF k % 2 = 1
                THEN /\ P[k].kind = "pocket"
                     /\ P[k + 1].kind = "profile"
                     /\ P[k + 1].name[2] = P[k].name[2]
                     /\ P[k + 1].base = P[k].base
                     /\ P[k + 1].FinalDepth = P[k].FinalDepth
                     /\ P[k].name[2] \in objs
                     /\ P[k].base # <<>>
                     /\ \A n \in 1..Len(P[k].base) :
                         /\ P[k].base[n][1] = "Face"
                         /\ P[k].base[n][2] \in FacesInside(fp, P[k].name[2])
                ELSE P[k].kind = "profile"
            /\ \A o \in objs : \A i \in FacesInside(fp, o) :
                /\ Cardinality({k \in pockets(o) : <<"Face", i>> \in SeqToSet(P[k].base)}) = 1
                /\ \A k \in pockets(o) :
                    <<"Face", i>> \in SeqToSet(P[k].base) => P[k].FinalDepth = depth(i)
            /\ \A o \in objs : \A k1, k2 \in pockets(o) :
                k1 < k2 => P[k1].FinalDepth < P[k2].FinalDepth

\* A faceplate turned upside down gave an object two groups, one of them of
\* two faces.
C10_Witness ==
    /\ last.op = "executeForMill"
    /\ last.outcome = Ok
    /\ last.args[2]
    /\ \E k1, k2 \in 1..Len(last.posted) :
        /\ k1 < k2
        /\ last.posted[k1].kind = "pocket"
        /\ last.posted[k2].kind = "pocket"
        /\ last.posted[k1].name[2] = last.posted[k2].name[2]
        /\ Len(last.posted[k1].base) + Len(last.posted[k2].base) = 3

\* The label looked up for a name: '.' and '-' become '_', "_tab" follows.
ExpectedLabel(n) ==
    [i \in 1..Len(n) |-> IF n[i] \in {".", "-"} THEN "_" ELSE n[i]] \o <<"_", "t", "a", "b">>

HasResult(n) == \E i \in 1..Len(tab.before) : tab.before[i].Label = ExpectedLabel(n)

FirstResult(n) == Min({i \in 1..Len(tab.before) : tab.before[i].Label = ExpectedLabel(n)})

RECURSIVE ReturnedCount(_)
ReturnedCount(k) ==
    IF k = 0 THEN 0
    ELSE ReturnedCount(k - 1)
         + (LET f == FirstResult(tab.objectNames[k])
            IN  IF tab.before[f].kids = 0 THEN 1 ELSE tab.before[f].kids)

\* execute raises exactly when a name has no result.
TabRaisesWhenResultMissing ==
    tab.outcome # "new" =>
        (tab.outcome = Raise <=>
            \E k \in 1..Len(tab.objectNames) : ~HasResult(tab.objectNames[k]))

\* On return the results are returned, compounds as their components, and
\* they alone are visible.
TabReturnsAndShowsResults ==
    tab.outcome = Ok =>
        /\ \A i \in 1..Len(tab.objs) : tab.objs[i].Visibility <=> i \in SeqToSet(tab.ret)
        /\ Len(tab.ret) = ReturnedCount(Len(tab.objectNames))
        /\ \A k \in 1..Len(tab.objectNames) :
            LET f == FirstResult(tab.objectNames[k])
            IN  IF tab.before[f].kids = 0
                THEN f \in SeqToSet(tab.ret)
                ELSE /\ f \notin SeqToSet(tab.ret)
                     /\ \E j \in SeqToSet(tab.ret) : tab.objs[j].Base = f
        /\ \A j \in SeqToSet(tab.ret) :
            \E k \in 1..Len(tab.objectNames) :
                LET f == FirstResult(tab.objectNames[k])
                IN  IF j <= Len(tab.before)
                    THEN j = f /\ tab.before[f].kids = 0
                    ELSE tab.objs[j].Base = f /\ tab.before[f].kids > 0

\* C7 as claimed: execute raises for a name without a result before it has
\* changed the visibility of any document object; with a result for every
\* name it returns them, and they alone are visible.
C7_RaisesBeforeAnyVisibilityChange ==
    /\ TabRaisesWhenResultMissing
    /\ tab.outcome = Raise =>
        \A i \in 1..Len(tab.before) : tab.objs[i].Visibility = tab.before[i].Visibility
    /\ TabReturnsAndShowsResults

\* C7, amended: execute raises for a name without a result before the pass
\* that shows the results and hides the rest; until then it has changed no
\* visibility but that of the compound results of earlier names, which it has
\* hidden.  With a result for every name it returns them, and they alone are
\* visible.
C7_RaisesBeforeShowingResults ==
    /\ TabRaisesWhenResultMissing
    /\ tab.outcome = Raise =>
        LET missing == Min({k \in 1..Len(tab.objectNames) : ~HasResult(tab.objectNames[k])})
        IN  \A i \in 1..Len(tab.before) :
                \/ tab.objs[i].Visibility = tab.before[i].Visibility
                \/ /\ ~tab.objs[i].Visibility
                   /\ tab.before[i].kids > 0
                   /\ \E k \in 1..(missing - 1) : FirstResult(tab.objectNames[k]) = i
    /\ TabReturnsAndShowsResults

\* execute raised for its second name after it had hidden the compound result
\* of the first.
C7_Witness ==
    /\ tab.outcome = Raise
    /\ \E i \in 1..Len(tab.before) :
        /\ tab.before[i].Visibility
        /\ ~tab.objs[i].Visibility
        /\ tab.before[i].kids > 0

\* The bounding box of an object after the step.
BoxAfter(o) == BoundBox(o, placement'[o])

RowChain(objs, startPosX, space) ==
    \A i \in 1..Len(objs) :
        BoxAfter(objs[i]).XMin =
            IF i = 1 THEN startPosX ELSE BoxAfter(objs[i - 1]).XMax + space

RowKeepsYAndLengths(objs, startPosY) ==
    \A i \in 1..Len(objs) :
        /\ BoxAfter(objs[i]).YMin = startPosY
        /\ BoxAfter(objs[i]).XLength = Box(objs[i]).XLength
        /\ BoxAfter(objs[i]).YLength = Box(objs[i]).YLength

RowInListOrder(objs) ==
    \A i, j \in 1..Len(objs) : i < j => BoxAfter(objs[i]).XMin <= BoxAfter(objs[j]).XMin

\* C8 as claimed: after placeInRow the first object's XMin is startPosX, each
\* later object's XMin is the XMax of the one before plus the gap, every YMin
\* is startPosY, the objects lie left to right in list order, and the X and Y
\* lengths of the bounding boxes are as before.
C8_RowAbutsInListOrder ==
    [][last'.op = "placeInRow" =>
        /\ RowChain(last'.args[1], last'.args[2], last'.args[4])
        /\ RowKeepsYAndLengths(last'.args[1], last'.args[3])
        /\ RowInListOrder(last'.args[1])]_vars

\* C8, amended: every YMin is startPosY and the lengths are as before; when
\* no object is in the list twice, the first XMin is startPosX and each later
\* XMin is the XMax of the one before plus the gap; when moreover the gap is
\* not negative, the objects lie left to right in list order.
C8_RowOfDistinctObjectsAbuts ==
    [][last'.op = "placeInRow" =>
        LET objs == last'.args[1]
            distinct == \A i, j \in 1..Len(objs) : i # j => objs[i] # objs[j]
        IN  /\ RowKeepsYAndLengths(objs, last'.args[3])
            /\ distinct => RowChain(objs, last'.args[2], last'.args[4])
            /\ distinct /\ last'.args[4] >= 0 => RowInListOrder(objs)]_vars

\* Two different objects, turned, were laid out in a row with a gap of 1.
C8_Witness ==
    /\ last.op = "placeInRow"
    /\ Len(last.args[1]) = 2
    /\ last.args[1][1] # last.args[1][2]
    /\ last.args[4] = 1
    /\ placement[last.args[1][1]].angle = 90
    /\ Box(last.args[1][1]).XMin = last.args[2]
    /\ Box(last.args[1][2]).XMin = Box(last.args[1][1]).XMax + 1

\* C11: saveScreenshotOfPath leaves the host's view as it found it on every
\* way out: the background overrides are set for the whole of the try block
\* and removed by the time the call has ended, whether it returns or raises
\* (retries run out, several windows match, the image cannot be saved); a
\* sub-window is detached and full screen only with the MDI area at hand, and
\* by the time the call has ended it is back in the MDI area and shown normal.
C11_ScreenshotRestoresView ==
    /\ shot.pc = "idle" => ~view.bg /\ ~view.full /\ ~view.detached
    /\ shot.pc # "idle" => view.bg
    /\ view.full \/ view.detached =>
        shot.pc \in {"view", "finally"} /\ shot.sub # None /\ shot.mdi # None
    /\ shot.pc = "idle" /\ last.op = "saveScreenshotOfPath" /\ last.before # None
          /\ last.args = <<FALSE>> /\ "Operations" \in doc =>
        /\ last.outcome \in {Ok, Raise}
        /\ SubSeq(last.log, 1, 2) =
              <<"RemUnsigned BackgroundColor2", "RemUnsigned BackgroundColor3">>
        /\ last.outcome = Ok =>
              last.log = restoreLog("sub", "mdi")

\* The image could not be saved: the call raised after the sub-window had
\* been full screen, and the view is as it was before the call.
C11_Witness ==
    /\ shot.pc = "idle"
    /\ last.op = "saveScreenshotOfPath"
    /\ last.outcome = Raise
    /\ last.log = restoreLog("sub", "mdi")
    /\ view = [bg |-> FALSE, full |-> FALSE, detached |-> FALSE]

\* The job steps that start with the clean-up deleteCADObjects.
CleanUpSteps == {"executeForMill", "executeForMillEngravings", "executeForDrilling"}

\* A step of the given names, taken in a document whose name lacks
\* 'exported_', raises and neither removes nor creates a document object.
RaisesUntouched(steps) ==
    last'.op \in steps /\ ~HasExported(docName) =>
        /\ last'.outcome = Raise
        /\ "deleteCADObjects" \notin SeqToSet(last'.log)
        /\ last'.log = <<>>
        /\ doc' = doc

\* C12 as claimed: executeForMill, executeForMillEngravings and
\* executeForDrilling reach the clean-up deleteCADObjects only in a document
\* whose name contains 'exported_'; in any other document the step raises
\* before a document object is removed or created.
C12_CleanUpOnlyInExportedCopy ==
    [][/\ last'.op \in CleanUpSteps /\ "deleteCADObjects" \in SeqToSet(last'.log) =>
            HasExported(docName)
       /\ RaisesUntouched(CleanUpSteps)]_vars

\* C12 for the two steps that check the name: executeForMill and
\* executeForMillEngravings reach the clean-up only in a document whose name
\* contains 'exported_', and in any other document raise before a document
\* object is removed or created.
C12_MillAndEngravingsCleanUpOnlyInExportedCopy ==
    [][/\ last'.op \in {"executeForMill", "executeForMillEngravings"}
              /\ "deleteCADObjects" \in SeqToSet(last'.log) =>
            HasExported(docName)
       /\ RaisesUntouched({"executeForMill", "executeForMillEngravings"})]_vars

\* executeForDrilling ran to its end in a document whose name lacks
\* 'exported_': the clean-up ran, the job's objects were made and the cache
\* was set.
C12_Witness ==
    /\ ~HasExported(docName)
    /\ last.op = "executeForDrilling"
    /\ last.outcome = Ok
    /\ "deleteCADObjects" \in SeqToSet(last.log)
    /\ "drills" \in doc
    /\ gcode # None

\* C13 as claimed: saveGCode on an instance with no cached G-code raises and
\* leaves the target file as it was, neither created nor emptied nor
\* appended to, with append false and with append true.
C13_FailedSaveTouchesNoFile ==
    [][last'.op = "saveGCode" /\ gcode = None =>
            last'.outcome = Raise /\ file' = file]_vars

\* C13, what holds: saveGCode on an instance with no cached G-code raises and
\* writes no G-code; the file is there afterwards, created when it was
\* absent; with append true an existing file keeps its content, with append
\* false it is left empty.
C13_FailedSaveLeavesExistingContent ==
    [][last'.op = "saveGCode" /\ gcode = None =>
            /\ last'.outcome = Raise
            /\ gcode' = None
            /\ file'.exists
            /\ file'.content = IF last'.args[1] THEN file.content ELSE <<>>]_vars

\* No job step has ever completed; saveGCode raised, and the target file is
\* there and empty: created by the failed call, or emptied of the G-code an
\* earlier run had written.
C13_Witness ==
    /\ produced = None
    /\ last.op = "saveGCode"
    /\ last.outcome = Raise
    /\ last.before = None
    /\ file = [exists |-> TRUE, content |-> <<>>]

====
